---- MODULE Spec2Model ----
(***************************************************************************)
(* Model of the NHL ingestion program: src/src/api.py (provider access and *)
(* entity mapping) and src/src/db.py (schema, upserts, the init_DB driver, *)
(* repair and backfill).                                                   *)
(*                                                                         *)
(* Values.  A nullable value is a sequence of length at most one: <<>> is  *)
(* SQL NULL / Python None, <<v>> is the value v.  A raw provider document  *)
(* (a Python dict) is a function from its keys to nullable values, so that *)
(* "key absent" and "key present with null" stay different, as they are    *)
(* for sqlite3's named parameter binding.                                  *)
(*                                                                         *)
(* Store.  db is a record of tables; a table is a function from the        *)
(* primary keys present to the row (a record of the modelled columns).     *)
(* Only committed rows are in db: an operation is an operator from the     *)
(* committed store to [db, err], and each commit point of the code is a    *)
(* point where the operator's intermediate store becomes its result even   *)
(* when a later step raises.                                               *)
(***************************************************************************)
EXTENDS Integers, Sequences, FiniteSets, TLC

VARIABLES
  db,        \* the committed content of nhl.db
  schema,    \* columns of the Game and Event tables, and the indexes
  pc,        \* position of init_DB: "idle" between runs, then its phases;
             \* or the position of the backfill loop (SpecBackfill)
  runs,      \* number of init_DB runs started
  memo,      \* the provider's responses fetched so far: selector -> response
  queue,     \* init_DB's to_process, the part not yet handled
  snap,      \* the store at the start of the current run
  last,      \* the last operation that ran and how it ended
  ops,       \* number of direct operation calls made (SpecOps)
  batch      \* the rows the backfill loop selected: key -> details_json

vars == <<db, schema, pc, runs, memo, queue, snap, last, ops, batch>>

----------------------------------------------------------------------------
(* Nullable values and Python truthiness *)

Null == <<>>

Some(v) == <<v>>

\* r.get(k) on a dict r
Get(r, k) == IF k \in DOMAIN r THEN r[k] ELSE Null

\* the float "not a number" (json.loads reads the text NaN as one, json.dumps
\* writes it back as NaN), written as a number that no coordinate takes
NaN == 999999

\* a value bound to a statement parameter: sqlite3 stores a NaN as NULL
SqlBind(v) == IF v = Some(NaN) THEN Null ELSE v

\* SQL COALESCE(a, b)
Coalesce(a, b) == IF a # Null THEN a ELSE b

\* Python "not v" for an int-or-None value
FalsyInt(v) == v = Null \/ v = Some(0)

\* Python "not v" for a str-or-None value
FalsyStr(v) == v = Null \/ v = Some("")

\* Python "a or b" on str-or-None values
OrStr(a, b) == IF FalsyStr(a) THEN b ELSE a

\* Python "a or b" on int-or-None values
OrInt(a, b) == IF FalsyInt(a) THEN b ELSE a

\* the set of elements of a sequence
Range(s) == {s[i] : i \in 1..Len(s)}

\* f with key k mapped to v (insert or replace)
Put(f, k, v) == [x \in DOMAIN f \cup {k} |-> IF x = k THEN v ELSE f[x]]

RECURSIVE SetMax(_)
SetMax(S) ==
  LET x == CHOOSE y \in S : TRUE
  IN  IF S = {x} THEN x
      ELSE LET m == SetMax(S \ {x}) IN IF x > m THEN x ELSE m

----------------------------------------------------------------------------
(* Errors.  An operation ends with NoErr or with the exception it raised.  *)
(* Only the two RuntimeErrors of upsert_events_for_game put the game id in *)
(* their message; the other messages are fixed texts without digits 404.   *)

NoErr == [kind |-> "none", gid |-> 0]

Err(kind, gid) == [kind |-> kind, gid |-> gid]

\* "404" in str(n) for a positive int n of at most ten digits
Contains404(n) ==
  \E p \in {1, 10, 100, 1000, 10000, 100000, 1000000, 10000000} : (n \div p) % 1000 = 404

\* "404" in str(e)
MessageHas404(e) ==
  /\ e.kind \in {"RuntimeError:RosterSpotsMissing", "RuntimeError:GameNotFound"}
  /\ Contains404(e.gid)

----------------------------------------------------------------------------
(* The store *)

EmptyDb ==
  [Season |-> <<>>, Team |-> <<>>, Game |-> <<>>,
   Player |-> <<>>, Roster |-> <<>>, Event |-> <<>>]

\* A row inserted with only its key: every other column NULL
SeasonStub == [formattedSeasonId |-> Null]

TeamStub == [fullName |-> Null, rawTricode |-> Null, triCode |-> Null]

\* sqlite: a NULL bound to an INTEGER PRIMARY KEY column gets max(rowid)+1
RowIdFor(tbl, idv) ==
  IF idv # Null THEN idv[1]
  ELSE IF DOMAIN tbl = {} THEN 1 ELSE SetMax(DOMAIN tbl) + 1

\* sqlite3 named binding: every :name of the statement must be a key of the row
BindOk(row, params) == params \subseteq DOMAIN row

\* a variant that finds every table empty
TableNeverHasRows(d, table) == FALSE

table_has_rows(d, table) == DOMAIN d[table] # {}

existing_ids(d, table) == DOMAIN d[table]

game_has_events(d, game_id) == \E k \in DOMAIN d.Event : k[1] = game_id

----------------------------------------------------------------------------
(* upsert_seasons: Overwrite policy, one transaction *)

SeasonParams == {"id", "formattedSeasonId"}

RECURSIVE SeasonBatch(_, _, _)
SeasonBatch(tbl, rows, i) ==
  IF i > Len(rows) THEN [tbl |-> tbl, err |-> NoErr]
  ELSE IF ~BindOk(rows[i], SeasonParams)
       THEN [tbl |-> tbl, err |-> Err("ProgrammingError", 0)]
  ELSE SeasonBatch(
         Put(tbl, RowIdFor(tbl, rows[i]["id"]),
             [formattedSeasonId |-> rows[i]["formattedSeasonId"]]),
         rows, i + 1)

\* a variant without rollback: the rows written before the failing one stay
WithConnPartial(d, table, b) == [db |-> [d EXCEPT ![table] = b.tbl], err |-> b.err]

\* "with conn: executemany": the table after the batch b is committed, or
\* the store is left as it was when a row of the batch raised
WithConn(d, table, b) ==
  IF b.err # NoErr THEN [db |-> d, err |-> b.err]
  ELSE [db |-> [d EXCEPT ![table] = b.tbl], err |-> NoErr]

upsert_seasons(d, seasons) == WithConn(d, "Season", SeasonBatch(d.Season, seasons, 1))

(* upsert_teams: every column is set from the new row, one transaction *)

TeamParams == {"id", "fullName", "rawTricode", "triCode"}

UpsertTeamRow(old, new) ==
  [fullName   |-> new["fullName"],
   rawTricode |-> new["rawTricode"],
   triCode    |-> new["triCode"]]

RECURSIVE TeamBatch(_, _, _)
TeamBatch(tbl, rows, i) ==
  IF i > Len(rows) THEN [tbl |-> tbl, err |-> NoErr]
  ELSE IF ~BindOk(rows[i], TeamParams)
       THEN [tbl |-> tbl, err |-> Err("ProgrammingError", 0)]
  ELSE LET k   == RowIdFor(tbl, rows[i]["id"])
           old == IF k \in DOMAIN tbl THEN tbl[k] ELSE TeamStub
       IN  TeamBatch(Put(tbl, k, UpsertTeamRow(old, rows[i])), rows, i + 1)

upsert_teams(d, teams) == WithConn(d, "Team", TeamBatch(d.Team, teams, 1))

(* ensure_season, ensure_team: INSERT OR IGNORE of a stub, committed at once *)

ensure_season(d, season_id) ==
  IF season_id = Null \/ season_id[1] \in DOMAIN d.Season THEN d
  ELSE [d EXCEPT !.Season = Put(@, season_id[1], SeasonStub)]

ensure_team(d, team_id) ==
  IF team_id = Null \/ team_id[1] \in DOMAIN d.Team THEN d
  ELSE [d EXCEPT !.Team = Put(@, team_id[1], TeamStub)]

(* upsert_team_from_pbp: Enrich policy on fullName and triCode.  The team   *)
(* document's commonName is absent, JSON null, or an object whose "default"  *)
(* is the modelled value; .get("commonName", {}).get("default") raises       *)
(* AttributeError on JSON null (the {} default only replaces an absent key). *)

CommonNameRaises(team_data) ==
  "commonName" \in DOMAIN team_data /\ team_data["commonName"] = Null

upsert_team_from_pbp(d, team_data) ==
  LET team_id   == Get(team_data, "id")
      full_name == IF "commonName" \in DOMAIN team_data
                   THEN team_data["commonName"][1] ELSE Null
      abbrev    == Get(team_data, "abbrev")
  IN  IF FalsyInt(team_id) THEN [db |-> d, err |-> NoErr]
      ELSE IF CommonNameRaises(team_data)
           THEN [db |-> d, err |-> Err("AttributeError", 0)]
      ELSE IF FalsyStr(full_name) /\ FalsyStr(abbrev)
           THEN [db |-> ensure_team(d, team_id), err |-> NoErr]
      ELSE LET k   == team_id[1]
               old == IF k \in DOMAIN d.Team THEN d.Team[k]
                      ELSE TeamStub
           IN  [db  |-> [d EXCEPT !.Team = Put(@, k,
                           [old EXCEPT !.fullName = Coalesce(full_name, old.fullName),
                                       !.triCode  = Coalesce(abbrev, old.triCode)])],
                err |-> NoErr]

(* upsert_games_basic: the stubs of every game's Season and Teams are      *)
(* committed one by one first; then the Game rows are one transaction.    *)
(* On conflict the listed columns are overwritten; venue and hasPlays are *)
(* not among them.  After the stub pass every foreign key of a bound row  *)
(* exists, so the Game table's FOREIGN KEY checks cannot fire.            *)

GameParams == {"id", "season", "gameType", "homeTeamId", "visitingTeamId", "homeScore"}

GameStub ==
  [season_id |-> Null, gameType |-> Null, homeTeamId |-> Null, awayTeamId |-> Null,
   homeScore |-> Null, venue |-> Null, hasPlays |-> Null]

\* a variant that inserts no stub
EnsureNoRefs(d, g) == d

EnsureGameRefs(d, g) ==
  ensure_team(ensure_team(ensure_season(d, Get(g, "season")),
                          Get(g, "homeTeamId")),
              Get(g, "visitingTeamId"))

RECURSIVE EnsureAllGameRefs(_, _, _)
EnsureAllGameRefs(d, games, i) ==
  IF i > Len(games) THEN d
  ELSE EnsureAllGameRefs(EnsureGameRefs(d, games[i]), games, i + 1)

\* a variant under the Enrich policy: a null never replaces a stored value
UpsertGameRowEnrich(old, g) ==
  [old EXCEPT !.season_id  = Coalesce(g["season"], @),
              !.gameType   = Coalesce(g["gameType"], @),
              !.homeTeamId = Coalesce(g["homeTeamId"], @),
              !.awayTeamId = Coalesce(g["visitingTeamId"], @),
              !.homeScore  = Coalesce(g["homeScore"], @)]

UpsertGameRow(old, g) ==
  [old EXCEPT !.season_id  = g["season"],
              !.gameType   = g["gameType"],
              !.homeTeamId = g["homeTeamId"],
              !.awayTeamId = g["visitingTeamId"],
              !.homeScore  = g["homeScore"]]

RECURSIVE GameBatch(_, _, _)
GameBatch(tbl, rows, i) ==
  IF i > Len(rows) THEN [tbl |-> tbl, err |-> NoErr]
  ELSE IF ~BindOk(rows[i], GameParams)
       THEN [tbl |-> tbl, err |-> Err("ProgrammingError", 0)]
  ELSE LET k   == RowIdFor(tbl, rows[i]["id"])
           old == IF k \in DOMAIN tbl THEN tbl[k] ELSE GameStub
       IN  GameBatch(Put(tbl, k, UpsertGameRow(old, rows[i])), rows, i + 1)

\* the batch of Game rows on the store d1 that holds the stubs
GameRows(d1, games) == WithConn(d1, "Game", GameBatch(d1.Game, games, 1))

upsert_games_basic(d, games) == GameRows(EnsureAllGameRefs(d, games, 1), games)

----------------------------------------------------------------------------
(* api.py: the provider.  A response is [status, doc]: status "ok" with    *)
(* the JSON document, "404" (raise_for_status raises HTTPError) or "err"   *)
(* (any other RequestException, or a body that is not JSON).               *)

\* _http_get: every failure is logged and becomes None
http_get(resp) == IF resp.status = "ok" THEN Some(resp.doc) ELSE Null

\* data.get(k, []) on a document whose k, when present, is a list
GetList(doc, k) == IF k \in DOMAIN doc THEN doc[k] ELSE <<>>

\* get_seasons, get_teams, get_games_for_season: data.get("data", []) if data else []
get_list(resp) ==
  LET data == http_get(resp)
  IN  IF data = Null \/ DOMAIN data[1] = {} THEN <<>> ELSE GetList(data[1], "data")

\* api._def: the "default" of a sub-object; a sub-object is modelled by
\* Some(its default), an absent or null one by Null
api_def(v) == IF v = Null THEN Null ELSE v[1]

RECURSIVE Concat(_, _, _)
Concat(doc, keys, i) ==
  IF i > Len(keys) THEN <<>>
  ELSE GetList(doc, keys[i]) \o Concat(doc, keys, i + 1)

RosterPlayerRow(player) ==
  [player_id  |-> Get(player, "id"),
   first_name |-> api_def(Get(player, "firstName")),
   birthDate  |-> Get(player, "birthDate")]

RosterRow(season_id, team_id, player) ==
  [season_id      |-> Some(season_id),
   team_id        |-> Some(team_id),
   player_id      |-> Get(player, "id"),
   sweater_number |-> Get(player, "sweaterNumber")]

\* the players of a roster document whose id is truthy, in order
RECURSIVE WithId(_, _, _)
WithId(seq, key, i) ==
  IF i > Len(seq) THEN <<>>
  ELSE (IF FalsyInt(Get(seq[i], key)) THEN <<>> ELSE <<seq[i]>>) \o WithId(seq, key, i + 1)

\* build_roster_rows: [err, players, roster, fetched]
\* the rows of the players p of the three groups
RosterRowsOf(season_id, team_id, p) ==
  [err     |-> NoErr,
   players |-> [i \in 1..Len(p) |-> RosterPlayerRow(p[i])],
   roster  |-> [i \in 1..Len(p) |-> RosterRow(season_id, team_id, p[i])],
   fetched |-> TRUE]

\* data.get(...) on the response; None raises AttributeError
RosterGroups(season_id, team_id, data) ==
  IF data = Null
  THEN [err |-> Err("AttributeError", 0), players |-> <<>>, roster |-> <<>>,
        fetched |-> TRUE]
  ELSE RosterRowsOf(season_id, team_id,
         WithId(Concat(data[1], <<"forwards", "defensemen", "goalies">>, 1), "id", 1))

build_roster_rows(season_id, team_tricode, team_id, resp) ==
  IF FalsyStr(team_tricode) \/ season_id = 0
  THEN [err |-> NoErr, players |-> <<>>, roster |-> <<>>, fetched |-> FALSE]
  ELSE RosterGroups(season_id, team_id, http_get(resp))

----------------------------------------------------------------------------
(* Player and Roster statements *)

PlayerParams == {"player_id", "firstName", "birthDate"}

RosterParams == {"season_id", "team_id", "player_id", "sweaterNumber"}

\* ON CONFLICT of upsert_players_from_roster: every column is coalesced
PlayerMergeFull(old, new) ==
  [firstName |-> Coalesce(new["firstName"], old.firstName),
   birthDate |-> Coalesce(new["birthDate"], old.birthDate)]

\* ON CONFLICT of upsert_players_from_pbp_roster and ensure_team_roster: the
\* name, headshot and position columns are coalesced, the others are not set
PlayerMergeShort(old, new) ==
  [old EXCEPT !.firstName = Coalesce(new["firstName"], old.firstName)]

RECURSIVE PlayerBatch(_, _, _, _)
PlayerBatch(tbl, rows, i, full) ==
  IF i > Len(rows) THEN [tbl |-> tbl, err |-> NoErr]
  ELSE IF ~BindOk(rows[i], PlayerParams)
       THEN [tbl |-> tbl, err |-> Err("ProgrammingError", 0)]
  ELSE LET k == RowIdFor(tbl, rows[i]["player_id"])
           new == [firstName |-> rows[i]["firstName"], birthDate |-> rows[i]["birthDate"]]
       IN  PlayerBatch(
             Put(tbl, k, IF k \notin DOMAIN tbl THEN new
                         ELSE IF full THEN PlayerMergeFull(tbl[k], rows[i])
                         ELSE PlayerMergeShort(tbl[k], rows[i])),
             rows, i + 1, full)

\* Roster's NOT NULL key columns and its three FOREIGN KEYs (foreign_keys = ON)
RosterConstraintsOk(d, players, row) ==
  /\ row["season_id"] # Null /\ row["team_id"] # Null /\ row["player_id"] # Null
  /\ row["season_id"][1] \in DOMAIN d.Season
  /\ row["team_id"][1] \in DOMAIN d.Team
  /\ row["player_id"][1] \in DOMAIN players

RECURSIVE RosterBatch(_, _, _, _, _)
RosterBatch(d, players, tbl, rows, i) ==
  IF i > Len(rows) THEN [tbl |-> tbl, err |-> NoErr]
  ELSE IF ~BindOk(rows[i], RosterParams)
       THEN [tbl |-> tbl, err |-> Err("ProgrammingError", 0)]
  ELSE IF ~RosterConstraintsOk(d, players, rows[i])
       THEN [tbl |-> tbl, err |-> Err("IntegrityError", 0)]
  ELSE LET k == <<rows[i]["season_id"][1], rows[i]["team_id"][1], rows[i]["player_id"][1]>>
       IN  RosterBatch(d, players,
             Put(tbl, k,
                 [sweaterNumber |-> IF k \in DOMAIN tbl
                                    THEN Coalesce(rows[i]["sweaterNumber"], tbl[k].sweaterNumber)
                                    ELSE rows[i]["sweaterNumber"]]),
             rows, i + 1)

\* the two executemany of a players-and-roster write, as one unit
WriteRoster(d, pb, roster_rows) ==
  IF pb.err # NoErr THEN [db |-> d, err |-> pb.err]
  ELSE WithConn([d EXCEPT !.Player = pb.tbl], "Roster",
                RosterBatch(d, pb.tbl, d.Roster, roster_rows, 1))

\* a failure of either executemany undoes both
Undo(d, w) == IF w.err # NoErr THEN [db |-> d, err |-> w.err] ELSE w

WritePlayersAndRoster(d, players_rows, roster_rows, full) ==
  Undo(d, WriteRoster(d, PlayerBatch(d.Player, players_rows, 1, full), roster_rows))

\* the result w of a write, with the record of whether the provider was asked
Fetched(w, fetched) == [db |-> w.db, err |-> w.err, fetched |-> fetched]

\* upsert_players_from_roster, from the rows b that build_roster_rows made
WriteRosterRows(d, b) ==
  IF b.err # NoErr THEN [db |-> d, err |-> b.err, fetched |-> b.fetched]
  ELSE IF b.players = <<>> THEN [db |-> d, err |-> NoErr, fetched |-> b.fetched]
  ELSE Fetched(WritePlayersAndRoster(d, b.players, b.roster, TRUE), b.fetched)

upsert_players_from_roster(d, season_id, team_tricode, team_id, resp) ==
  WriteRosterRows(d, build_roster_rows(season_id, team_tricode, team_id, resp))

\* db._def: the "default" of a dict, None for anything else
db_def(v) == IF v = Null THEN Null ELSE v[1]

SpotPlayerRow(r) ==
  [player_id |-> Get(r, "playerId"),
   firstName |-> db_def(Get(r, "firstName")),
   birthDate |-> Get(r, "birthDate")]

SpotRosterRow(season_id, r) ==
  [season_id     |-> season_id,
   team_id       |-> Get(r, "teamId"),
   player_id     |-> Get(r, "playerId"),
   sweaterNumber |-> Get(r, "sweaterNumber")]

\* the roster spots whose playerId and teamId are both truthy
RECURSIVE UsableSpots(_, _)
UsableSpots(spots, i) ==
  IF i > Len(spots) THEN <<>>
  ELSE (IF FalsyInt(Get(spots[i], "playerId")) \/ FalsyInt(Get(spots[i], "teamId"))
        THEN <<>> ELSE <<spots[i]>>) \o UsableSpots(spots, i + 1)

\* upsert_players_from_pbp_roster; season_id is the Game row's nullable column
WriteSpots(d, season_id, spots) ==
  IF spots = <<>> THEN [db |-> d, err |-> NoErr]
  ELSE WritePlayersAndRoster(d,
         [i \in 1..Len(spots) |-> SpotPlayerRow(spots[i])],
         [i \in 1..Len(spots) |-> SpotRosterRow(season_id, spots[i])],
         FALSE)

upsert_players_from_pbp_roster(d, season_id, roster_spots) ==
  WriteSpots(d, season_id, UsableSpots(roster_spots, 1))

----------------------------------------------------------------------------
(* Selectors of the provider's resources *)

SeasonsSel == [kind |-> "seasons", id |-> 0, code |-> ""]

TeamsSel == [kind |-> "teams", id |-> 0, code |-> ""]

GamesSel(season_id) == [kind |-> "games", id |-> season_id, code |-> ""]

RosterSel(team_tricode, season_id) == [kind |-> "roster", id |-> season_id, code |-> team_tricode]

PbpSel(game_id) == [kind |-> "pbp", id |-> game_id, code |-> ""]

----------------------------------------------------------------------------
(* ensure_team_roster(conn, season_id, team_id); P maps selectors to the   *)
(* provider's responses.  Its statements run in the caller's transaction   *)
(* and it commits at its end.                                              *)

HasRoster(d, season_id, team_id) ==
  \E k \in DOMAIN d.Roster : k[1] = season_id /\ k[2] = team_id

\* SELECT COALESCE(triCode, rawTricode) FROM Team WHERE team_id = ?
TricodeOf(d, team_id) ==
  IF team_id \in DOMAIN d.Team
  THEN Coalesce(d.Team[team_id].triCode, d.Team[team_id].rawTricode)
  ELSE Null

\* the two executemany and the commit, on the rows b of the roster sel
EnsureRosterRows(d, sel, b) ==
  IF b.err # NoErr THEN [db |-> d, err |-> b.err, fetched |-> {sel}]
  ELSE IF Len(b.players) = 0 /\ Len(b.roster) = 0
  THEN [db |-> d, err |-> NoErr, fetched |-> {sel}]
  ELSE Fetched(WritePlayersAndRoster(d, b.players, b.roster, FALSE), {sel})

\* b) the team's tricode, then the roster of that tricode
EnsureRosterOf(d, season_id, team_id, tricode, P) ==
  IF FalsyStr(tricode) THEN [db |-> d, err |-> NoErr, fetched |-> {}]
  ELSE EnsureRosterRows(d, RosterSel(tricode[1], season_id),
         build_roster_rows(season_id, tricode, team_id,
                           P[RosterSel(tricode[1], season_id)]))

ensure_team_roster(d, season_id, team_id, P) ==
  IF FalsyInt(season_id) \/ FalsyInt(team_id)
  THEN [db |-> d, err |-> NoErr, fetched |-> {}]
  ELSE IF HasRoster(d, season_id[1], team_id[1])
  THEN [db |-> d, err |-> NoErr, fetched |-> {}]
  ELSE EnsureRosterOf(d, season_id[1], team_id[1], TricodeOf(d, team_id[1]), P)

----------------------------------------------------------------------------
(* build_pbp_rows.  A play-by-play document has the optional keys          *)
(* homeTeam, awayTeam (team objects), venue (a sub-object), plays and      *)
(* rosterSpots (lists).  A play has the optional keys eventId,             *)
(* typeDesckey, situationCode, periodDescriptor and details (objects).     *)

\* json.dumps(details): the stored text of a details object
json_dumps(details) == [json |-> details]

\* json.loads of a text json_dumps produced
json_loads(text) == text.json

\* p.get(k) or {} for an object-valued key
GetObj(p, k) == IF k \in DOMAIN p THEN p[k] ELSE <<>>

EventRow(game_id, p) ==
  LET details == GetObj(p, "details")
  IN  [game_id       |-> game_id,
       eventId       |-> Get(p, "eventId")[1],
       typeDescKey   |-> Get(p, "typeDesckey"),
       details_json  |-> Some(json_dumps(details)),
       xCoord        |-> Get(details, "xCoord"),
       yCoord        |-> Get(details, "yCoord"),
       shotType      |-> Get(details, "shotType"),
       shootingPlayerId |-> OrInt(Get(details, "scoringPlayerId"),
                                  Get(details, "shootingPlayerId")),
       goalieInNetId |-> Get(details, "goalieInNetId"),
       zoneCode      |-> Get(details, "zoneCode"),
       situationCode |-> OrStr(Get(p, "situationCode"),
                               Get(GetObj(p, "periodDescriptor"), "situationCode")),
       homeTeamDefendingSide |-> Get(p, "homeTeamDefendingSide")]

\* the plays whose eventId is not None, in order
RECURSIVE WithEventId(_, _)
WithEventId(plays, i) ==
  IF i > Len(plays) THEN <<>>
  ELSE (IF Get(plays[i], "eventId") = Null THEN <<>> ELSE <<plays[i]>>)
       \o WithEventId(plays, i + 1)

\* the team objects of the document that are truthy, home first
TeamsOut(data) ==
  (IF "homeTeam" \in DOMAIN data /\ DOMAIN data["homeTeam"] # {}
   THEN <<data["homeTeam"]>> ELSE <<>>)
  \o (IF "awayTeam" \in DOMAIN data /\ DOMAIN data["awayTeam"] # {}
      THEN <<data["awayTeam"]>> ELSE <<>>)

HasPlaysOf(plays) == IF Len(plays) > 0 THEN 1 ELSE 0

\* the event rows of the plays kept
EventRows(game_id, kept) == [i \in 1..Len(kept) |-> EventRow(game_id, kept[i])]

\* data.get(...) on the response; None raises AttributeError
PbpRows(game_id, data) ==
  IF data = Null
  THEN [err |-> Err("AttributeError", 0)]
  ELSE [err         |-> NoErr,
        meta        |-> [venue    |-> api_def(Get(data[1], "venue")),
                         hasPlays |-> HasPlaysOf(GetList(data[1], "plays"))],
        teams       |-> TeamsOut(data[1]),
        events      |-> EventRows(game_id, WithEventId(GetList(data[1], "plays"), 1)),
        rosterSpots |-> GetList(data[1], "rosterSpots")]

build_pbp_rows(game_id, resp) == PbpRows(game_id, http_get(resp))

----------------------------------------------------------------------------
(* upsert_events_for_game.  The "with conn" of upsert_team_from_pbp and of *)
(* upsert_players_from_pbp_roster, and ensure_team_roster's commit, each   *)
(* commit what was written so far; an exception rolls back only what was   *)
(* written since the last of them.                                         *)

RECURSIVE TeamsFromPbp(_, _, _)

\* for team in teams: upsert_team_from_pbp(conn, team), each in its own "with conn"
NextTeamFromPbp(r, teams, i) ==
  IF r.err # NoErr THEN r ELSE TeamsFromPbp(r.db, teams, i + 1)

TeamsFromPbp(d, teams, i) ==
  IF i > Len(teams) THEN [db |-> d, err |-> NoErr]
  ELSE NextTeamFromPbp(upsert_team_from_pbp(d, teams[i]), teams, i)

\* e) ev["emptyNet"] = 1 if ev.get("emptyNet") else 0; the mapper's rows
\*    have no emptyNet key
EmptyNetOf(ev) == IF FalsyInt(Get(ev, "emptyNet")) THEN 0 ELSE 1

\* the row an INSERT without conflict stores
InsertedEventRow(ev) ==
  [typeDescKey   |-> ev.typeDescKey,
   details_json  |-> ev.details_json,
   xCoord        |-> SqlBind(ev.xCoord),
   yCoord        |-> SqlBind(ev.yCoord),
   shotType      |-> ev.shotType,
   shootingPlayerId |-> ev.shootingPlayerId,
   goalieInNetId |-> ev.goalieInNetId,
   zoneCode      |-> ev.zoneCode,
   emptyNet      |-> Some(EmptyNetOf(ev)),
   situationCode |-> ev.situationCode,
   homeTeamDefendingSide |-> ev.homeTeamDefendingSide]

\* a variant under the Enrich policy in every column
MergeEventRowEnrich(old, ev) ==
  [typeDescKey   |-> Coalesce(ev.typeDescKey, old.typeDescKey),
   details_json  |-> Coalesce(ev.details_json, old.details_json),
   xCoord        |-> Coalesce(ev.xCoord, old.xCoord),
   yCoord        |-> Coalesce(ev.yCoord, old.yCoord),
   shotType      |-> Coalesce(ev.shotType, old.shotType),
   shootingPlayerId |-> Coalesce(ev.shootingPlayerId, old.shootingPlayerId),
   goalieInNetId |-> Coalesce(ev.goalieInNetId, old.goalieInNetId),
   zoneCode      |-> Coalesce(ev.zoneCode, old.zoneCode),
   emptyNet      |-> Some(EmptyNetOf(ev)),
   situationCode |-> Coalesce(ev.situationCode, old.situationCode),
   homeTeamDefendingSide |-> Coalesce(ev.homeTeamDefendingSide, old.homeTeamDefendingSide)]

\* ON CONFLICT(game_id, eventId) DO UPDATE SET col = excluded.col, except
\* situationCode and homeTeamDefendingSide, which are coalesced
MergeEventRow(old, ev) ==
  [InsertedEventRow(ev) EXCEPT
     !.situationCode = Coalesce(ev.situationCode, old.situationCode),
     !.homeTeamDefendingSide = Coalesce(ev.homeTeamDefendingSide, old.homeTeamDefendingSide)]

\* f) INSERT ... ON CONFLICT(game_id, eventId) DO UPDATE
UpsertEventRow(tbl, ev) ==
  Put(tbl, <<ev.game_id, ev.eventId>>,
      IF <<ev.game_id, ev.eventId>> \in DOMAIN tbl
      THEN MergeEventRow(tbl[<<ev.game_id, ev.eventId>>], ev)
      ELSE InsertedEventRow(ev))

RECURSIVE EventBatch(_, _, _)
EventBatch(tbl, events, i) ==
  IF i > Len(events) THEN tbl
  ELSE EventBatch(UpsertEventRow(tbl, events[i]), events, i + 1)

\* d) UPDATE Game SET venue = COALESCE(?, venue), hasPlays = ? WHERE game_id = ?
UpdateGameMeta(d, game_id, meta) ==
  [d EXCEPT !.Game[game_id] =
     [@ EXCEPT !.venue = Coalesce(meta.venue, @), !.hasPlays = Some(meta.hasPlays)]]

\* b) the guard on the Game row
GameRowPresent(d, game_id) == game_id \in DOMAIN d.Game

\* d) and f): the metadata and the events, committed with c)
WriteMetaAndEvents(g, events, f) ==
  [db  |-> IF Len(events) = 0 THEN g ELSE [g EXCEPT !.Event = EventBatch(@, events, 1)],
   err |-> NoErr, fetched |-> f]

\* after c) upsert_players_from_pbp_roster returned pr on the store d
AfterSpots(d, pr, game_id, pb, f) ==
  IF pr.err # NoErr THEN [db |-> d, err |-> pr.err, fetched |-> f]
  ELSE WriteMetaAndEvents(UpdateGameMeta(pr.db, game_id, pb.meta), pb.events, f)

\* after ensure_team_roster of the away team returned ra on the store d
AfterAwayRoster(d, ra, row, game_id, pb, f) ==
  IF ra.err # NoErr THEN [db |-> d, err |-> ra.err, fetched |-> f \cup ra.fetched]
  ELSE AfterSpots(ra.db,
         upsert_players_from_pbp_roster(ra.db, row.season_id, pb.rosterSpots),
         game_id, pb, f \cup ra.fetched)

\* after ensure_team_roster of the home team returned rh on the store d
AfterHomeRoster(d, rh, row, game_id, pb, P, f) ==
  IF rh.err # NoErr THEN [db |-> d, err |-> rh.err, fetched |-> f \cup rh.fetched]
  ELSE AfterAwayRoster(rh.db, ensure_team_roster(rh.db, row.season_id, row.awayTeamId, P),
                       row, game_id, pb, f \cup rh.fetched)

\* b) the Game row, then the two rosters of its season
WithGameRow(d, row, game_id, pb, P, f) ==
  AfterHomeRoster(d, ensure_team_roster(d, row.season_id, row.homeTeamId, P),
                  row, game_id, pb, P, f)

\* a variant of what follows a) without the guard b) on the Game row
AfterTeamsNoGuard(a, game_id, pb, P, f) ==
  IF a.err # NoErr THEN [db |-> a.db, err |-> a.err, fetched |-> f]
  ELSE [db  |-> [a.db EXCEPT !.Event = EventBatch(@, pb.events, 1)],
        err |-> NoErr, fetched |-> f]

\* after a) the upserts of the document's teams returned a
AfterTeams(a, game_id, pb, P, f) ==
  IF a.err # NoErr THEN [db |-> a.db, err |-> a.err, fetched |-> f]
  ELSE IF ~GameRowPresent(a.db, game_id)
  THEN [db |-> a.db, err |-> Err("RuntimeError:GameNotFound", game_id), fetched |-> f]
  ELSE WithGameRow(a.db, a.db.Game[game_id], game_id, pb, P, f)

\* after build_pbp_rows returned pb
AfterPbp(d, game_id, pb, P, f) ==
  IF pb.err # NoErr THEN [db |-> d, err |-> pb.err, fetched |-> f]
  ELSE IF Len(pb.rosterSpots) = 0
  THEN [db |-> d, err |-> Err("RuntimeError:RosterSpotsMissing", game_id), fetched |-> f]
  ELSE AfterTeams(TeamsFromPbp(d, pb.teams, 1), game_id, pb, P, f)

upsert_events_for_game(d, game_id, P) ==
  AfterPbp(d, game_id, build_pbp_rows(game_id, P[PbpSel(game_id)]), P, {PbpSel(game_id)})

----------------------------------------------------------------------------
(* repair_allstar_teams: no try/except around the fetch or the upserts *)

AllStarGameType == 4

RECURSIVE SortedSeq(_)
SortedSeq(S) ==
  IF S = {} THEN <<>>
  ELSE LET m == CHOOSE x \in S : \A y \in S : x <= y
       IN  <<m>> \o SortedSeq(S \ {m})

\* for team in [data.get("homeTeam"), data.get("awayTeam")]: if team: upsert
RECURSIVE RepairGames(_, _, _, _, _)
\* after the teams of one game were upserted with result r
NextRepair(r, games, i, P, fetched) ==
  IF r.err # NoErr THEN [db |-> r.db, err |-> r.err, fetched |-> fetched]
  ELSE RepairGames(r.db, games, i + 1, P, fetched)

\* data = _http_get(...); data.get("homeTeam") raises AttributeError on None
RepairGame(d, data, games, i, P, fetched) ==
  IF data = Null THEN [db |-> d, err |-> Err("AttributeError", 0), fetched |-> fetched]
  ELSE NextRepair(TeamsFromPbp(d, TeamsOut(data[1]), 1), games, i, P, fetched)

RepairGames(d, games, i, P, fetched) ==
  IF i > Len(games) THEN [db |-> d, err |-> NoErr, fetched |-> fetched]
  ELSE RepairGame(d, http_get(P[PbpSel(games[i])]), games, i, P,
                  fetched \cup {PbpSel(games[i])})

repair_allstar_teams(d, P) ==
  IF ~\E t \in DOMAIN d.Team : d.Team[t].fullName = Null
  THEN [db |-> d, err |-> NoErr, fetched |-> {}]
  ELSE RepairGames(d,
         SortedSeq({g \in DOMAIN d.Game : d.Game[g].gameType = Some(AllStarGameType)}),
         1, P, {})

----------------------------------------------------------------------------
(* backfill_shot_columns_if_needed: every qualifying row is rewritten from *)
(* its own details_json, batch after batch, until none qualifies.          *)

ShotTypes == {"shot-on-goal", "goal", "missed-shot", "blocked-shot"}

\* a variant that does not look at the type of the event
NeedsBackfillAnyType(ev) ==
  /\ ev.details_json # Null
  /\ ev.xCoord = Null

\* WHERE typeDescKey IN (...) AND details_json IS NOT NULL AND xCoord IS NULL
NeedsBackfill(ev) ==
  /\ ev.typeDescKey # Null /\ ev.typeDescKey[1] \in ShotTypes
  /\ ev.details_json # Null
  /\ ev.xCoord = Null

\* a variant without the sentinel
BackfillXNoSentinel(details) == Get(details, "xCoord")

\* 0 is the sentinel for a coordinate the details do not carry
BackfillX(details) ==
  IF Get(details, "xCoord") # Null THEN Get(details, "xCoord") ELSE Some(0)

\* json.loads(details_json) if details_json else {}; {} on JSONDecodeError
LoadDetails(details_json) ==
  IF details_json = Null THEN <<>>
  ELSE IF "json" \in DOMAIN details_json[1] THEN json_loads(details_json[1])
  ELSE <<>>

\* UPDATE Event SET xCoord = ?, ..., emptyNet = ? with the values made of
\* the details_json the batch fetched
ShotUpdate(ev, details_json) ==
  [ev EXCEPT !.xCoord   = SqlBind(BackfillX(LoadDetails(details_json))),
             !.yCoord   = SqlBind(IF Get(LoadDetails(details_json), "yCoord") # Null
                                  THEN Get(LoadDetails(details_json), "yCoord")
                                  ELSE Some(0)),
             !.shotType = Get(LoadDetails(details_json), "shotType"),
             !.shootingPlayerId =
                 OrInt(Get(LoadDetails(details_json), "scoringPlayerId"),
                       Get(LoadDetails(details_json), "shootingPlayerId")),
             !.goalieInNetId = Get(LoadDetails(details_json), "goalieInNetId"),
             !.zoneCode = Get(LoadDetails(details_json), "zoneCode"),
             !.emptyNet = IF FalsyInt(Get(LoadDetails(details_json), "emptyNet"))
                          THEN Null ELSE Some(1)]

BackfillRow(ev) == ShotUpdate(ev, ev.details_json)

\* the store the loop ends with
backfill_shot_columns_if_needed(d) ==
  [d EXCEPT !.Event =
     [k \in DOMAIN d.Event |->
        IF NeedsBackfill(d.Event[k]) THEN BackfillRow(d.Event[k]) ELSE d.Event[k]]]

\* the rows the three SELECT statements of the function look for
Qualifying(d) == {k \in DOMAIN d.Event : NeedsBackfill(d.Event[k])}

\* SELECT ... LIMIT size: any `size` of the qualifying rows, or all of them
\* when there are fewer (the statement has no ORDER BY)
SelectLimit(d, size) ==
  {S \in SUBSET Qualifying(d) :
     \/ Cardinality(S) = size
     \/ Cardinality(S) < size /\ S = Qualifying(d)}

----------------------------------------------------------------------------
(* init_db: the schema.  schema.Game and schema.Event are the column sets  *)
(* of the two tables that are migrated ({} when the table does not exist), *)
(* schema.Index the names of the indexes; the other tables are created if  *)
(* absent and never altered.  DDL is committed statement by statement, so  *)
(* what ran before a failing statement stays.                              *)

GameBaseCols == {"game_id", "season_id", "gameType", "homeTeamId", "awayTeamId",
                 "homeScore", "venue"}

EventBaseCols == {"game_id", "eventId", "typeCode", "typeDescKey", "eventOwnerTeamId",
                  "details_json"}

EventShotCols == {"xCoord", "yCoord", "shotType", "shootingPlayerId", "goalieInNetId",
                  "zoneCode", "emptyNet"}

\* the list the migration loops over ("emptyNet" "zoneCode" is one string)
new_shot_cols == <<"xCoord", "yCoord", "shotType", "shootingPayerId", "goalieInNetId",
                   "emptyNetzoneCode">>

\* the indexes of the CREATE INDEX IF NOT EXISTS statements of the script
ScriptIndexes == {"idx_game_season", "idx_game_home", "idx_game_away", "idx_event_game",
                  "idx_event_type", "idx_event_team", "idx_roster_team", "idx_roster_player"}

\* the three CREATE INDEX statements after the migration, in order
ShotIndexes ==
  << [name |-> "idx_event_shooter",  col |-> "shootingPlayerId"],
     [name |-> "idx_event_goalie",   col |-> "goalieInNetId"],
     [name |-> "idx_event_typedesc", col |-> "typeDescKey"] >>

\* columns the three CREATE INDEX statements after the migration name
IndexedEventCols == {ShotIndexes[i].col : i \in 1..Len(ShotIndexes)}

\* no database file yet
NoSchema == [Game |-> {}, Event |-> {}, Index |-> {}]

\* executescript: a table that exists is left as it is, a missing one is
\* created as declared, and so are the indexes
CreateTables(sch) ==
  [Game  |-> IF sch.Game = {} THEN GameBaseCols \cup {"hasPlays"} ELSE sch.Game,
   Event |-> IF sch.Event = {} THEN EventBaseCols \cup EventShotCols ELSE sch.Event,
   Index |-> sch.Index \cup ScriptIndexes]

\* if "hasPlays" not in cols: ALTER TABLE Game ADD COLUMN hasPlays
MigrateGame(s) ==
  [s EXCEPT !.Game = @ \cup (IF "hasPlays" \notin @ THEN {"hasPlays"} ELSE {})]

\* the ALTER TABLE Event ADD COLUMN statements, each guarded by the column
\* set event_cols that was read once before them
MigrateEvent(s, event_cols) ==
  [s EXCEPT
     !.Event = @ \cup (({"homeTeamDefendingSide", "situationCode"}
                        \cup Range(new_shot_cols)) \ event_cols),
     !.Index = @ \cup (IF "homeTeamDefendingSide" \notin event_cols
                       THEN {"idx_event_home_team_def_side"} ELSE {})]

\* CREATE INDEX IF NOT EXISTS ... ON Event(col): "no such column" ends init_db
RECURSIVE CreateShotIndexes(_, _)
CreateShotIndexes(s, i) ==
  IF i > Len(ShotIndexes) THEN [schema |-> s, err |-> NoErr]
  ELSE IF ShotIndexes[i].col \notin s.Event
       THEN [schema |-> s, err |-> Err("OperationalError", 0)]
  ELSE CreateShotIndexes([s EXCEPT !.Index = @ \cup {ShotIndexes[i].name}], i + 1)

\* the migrations on the schema s the script left
MigrateFrom(s) == CreateShotIndexes(MigrateEvent(MigrateGame(s), s.Event), 1)

init_db(sch) == MigrateFrom(CreateTables(sch))

\* a variant that recreates the tables: the rows do not survive
RowsAfterRecreate(d) == EmptyDb

\* the rows after init_db: CREATE TABLE IF NOT EXISTS and ALTER TABLE ADD
\* COLUMN leave the rows of an existing table in place
RowsAfterInitDb(d) == d

\* a variant that goes on to the ingestion whatever init_db raised
PhaseAfterSchemaIgnoringErr(err) == "seasons"

\* init_DB's try has no except: what init_db raises ends the run
PhaseAfterSchema(err) == IF err # NoErr THEN "idle" ELSE "seasons"

\* every column the statements of the operations name exists
SchemaReady(sch) ==
  /\ GameBaseCols \cup {"hasPlays"} \subseteq sch.Game
  /\ EventBaseCols \cup EventShotCols \cup {"situationCode", "homeTeamDefendingSide"}
       \subseteq sch.Event

\* stores an earlier version of the program left: a Game table made before
\* the hasPlays column, an Event table made before the shot columns
LegacyGameSchema ==
  [Game |-> GameBaseCols, Event |-> {},
   Index |-> {"idx_game_season", "idx_game_home", "idx_game_away"}]

LegacyEventSchema ==
  [Game |-> GameBaseCols \cup {"hasPlays"}, Event |-> EventBaseCols, Index |-> ScriptIndexes]

StartSchemas == {NoSchema, LegacyGameSchema, LegacyEventSchema}

----------------------------------------------------------------------------
(* Bounds and the provider's possible answers *)

MaxRuns == 2

MaxOps == 4

\* int(f"{y}{y + 1}")
SeasonId(y) == y * 10000 + y + 1

\* SEASONS, restricted to its first season
SEASONS == {SeasonId(y) : y \in 2016..2016}

\* a season before the ingestion range
OtherSeason == SeasonId(2015)

\* regular-season games 0001 and 0404 of 2016-2017
GameA == 2016020000 + 1

Game404 == 2016020000 + 404

Unavailable(status) == [status |-> status, doc |-> <<>>]

Ok(doc) == [status |-> "ok", doc |-> doc]

RawSeason(id, fmt) == [id |-> Some(id), formattedSeasonId |-> fmt]

SeasonLists ==
  { <<RawSeason(SeasonId(2016), Some("2016-17"))>>,
    <<RawSeason(OtherSeason, Some("2015-16")), RawSeason(SeasonId(2016), Null)>>,
    <<RawSeason(SeasonId(2016), Some("2016-17")), [id |-> Some(SeasonId(2016))]>> }

SeasonResponses == {Unavailable("err")} \cup {Ok([data |-> l]) : l \in SeasonLists}

RawTeam(id, name, code) ==
  [id |-> Some(id), fullName |-> name, rawTricode |-> code, triCode |-> code]

TeamLists ==
  { <<RawTeam(1, Some("Montreal Canadiens"), Some("MTL"))>>,
    <<RawTeam(1, Null, Null), RawTeam(2, Some("Toronto Maple Leafs"), Null)>>,
    <<RawTeam(2, Null, Null), [id |-> Some(1), fullName |-> Some("Montreal Canadiens")]>> }

TeamResponses == {Unavailable("err")} \cup {Ok([data |-> l]) : l \in TeamLists}

RawGame(id, type, score) ==
  [id |-> id, season |-> Some(SeasonId(2016)), gameType |-> Some(type),
   homeTeamId |-> Some(1), visitingTeamId |-> Some(2), homeScore |-> score]

\* a game between two teams that the team list does not hold
AwayGame ==
  [RawGame(Some(GameA), 2, Null) EXCEPT !.homeTeamId = Some(2), !.visitingTeamId = Some(3)]

GameLists ==
  { <<RawGame(Some(GameA), 2, Some(3))>>,
    <<RawGame(Some(Game404), 4, Null)>>,
    <<RawGame(Some(GameA), 2, Null), RawGame(Some(Game404), 2, Some(3))>>,
    <<RawGame(Null, 2, Null)>>,
    <<AwayGame>>,
    <<RawGame(Some(GameA), 2, Some(3)),
      [id |-> Some(Game404), season |-> Some(OtherSeason), homeTeamId |-> Some(3)]>> }

GameResponses == {Unavailable("err")} \cup {Ok([data |-> l]) : l \in GameLists}

RosterDocs ==
  { <<>>,
    [forwards |-> << [id |-> Some(9), firstName |-> Some(Some("Carey")),
                      sweaterNumber |-> Some(31)] >>] }

RosterResponses == {Unavailable("404")} \cup {Ok(doc) : doc \in RosterDocs}

PbpTeam == [id |-> Some(1), commonName |-> Some(Some("Canadiens")), abbrev |-> Some("MTL")]

Spot(team_id) == [playerId |-> Some(9), teamId |-> Some(team_id), firstName |-> Some(Some("Carey"))]

\* a roster spot that carries the player's birth date and sweater number
SpotBorn(team_id) ==
  [playerId |-> Some(9), teamId |-> Some(team_id), firstName |-> Some(Some("C.")),
   birthDate |-> Some("1987-08-16"), sweaterNumber |-> Some(31)]

PlayNoId == [typeDesckey |-> Some("faceoff")]

PlayShot ==
  [eventId |-> Some(1), typeDesckey |-> Some("goal"), details |-> [emptyNet |-> Some(1)]]

PlayOther ==
  [eventId |-> Some(2), typeDesckey |-> Some("period-start"), situationCode |-> Some("1551"),
   homeTeamDefendingSide |-> Some("left")]

\* the goal of PlayShot, with the situation code in its period descriptor
PlayShotCoded ==
  [eventId |-> Some(1), typeDesckey |-> Some("goal"), details |-> [emptyNet |-> Some(1)],
   periodDescriptor |-> [situationCode |-> Some("0651")]]

PlayShotXY ==
  [eventId |-> Some(2), typeDesckey |-> Some("shot-on-goal"),
   details |-> [xCoord |-> Some(55), yCoord |-> Some(3), shotType |-> Some("wrist"),
                scoringPlayerId |-> Some(0), shootingPlayerId |-> Some(9),
                goalieInNetId |-> Some(30), zoneCode |-> Some("O"),
                emptyNet |-> Some(1)]]

PbpDocs ==
  { [plays |-> <<PlayShot>>],
    [homeTeam |-> PbpTeam, rosterSpots |-> <<Spot(1)>>],
    [homeTeam |-> PbpTeam, plays |-> <<PlayNoId>>, rosterSpots |-> <<Spot(1)>>],
    [homeTeam |-> PbpTeam, venue |-> Some(Some("Centre Bell")),
     plays |-> <<PlayShot, PlayOther>>, rosterSpots |-> <<Spot(1)>>],
    [plays |-> <<PlayShotCoded, PlayShotXY>>, rosterSpots |-> <<Spot(2)>>],
    [homeTeam |-> PbpTeam, plays |-> <<PlayShot>>, rosterSpots |-> <<Spot(3)>>] }

PbpResponses == {Unavailable("404"), Unavailable("err")} \cup {Ok(doc) : doc \in PbpDocs}

RosterSels == {RosterSel("MTL", s) : s \in SEASONS}

\* a remembered response that the provider no longer stands by
IsStale(e) == "stale" \in DOMAIN e

MarkStale(e) == [status |-> e.status, doc |-> e.doc, stale |-> TRUE]

\* the selectors whose remembered response is the provider's current answer
Fresh == {sel \in DOMAIN memo : ~IsStale(memo[sel])}

\* the responses to the selectors in `needed`: what was fetched before stays,
\* the rest is what the provider answers now
Provider(needed, pbp, roster) ==
  [sel \in needed |->
     IF sel \in Fresh THEN memo[sel]
     ELSE IF sel.kind = "pbp" THEN pbp[sel] ELSE roster[sel]]

Unfetched(needed) == needed \ Fresh

Remember(P, fetched) ==
  [sel \in DOMAIN memo \cup fetched |-> IF sel \in fetched THEN P[sel] ELSE memo[sel]]

\* the record of a call: the operation, how it ended, the game it was for,
\* that game's stored hasPlays before it, and the argument it was given
LastCall(op, err, gid, before, arg) ==
  [op |-> op, err |-> err, gid |-> gid, before |-> before, arg |-> arg]

Last(op, err, gid, before) == LastCall(op, err, gid, before, <<>>)

----------------------------------------------------------------------------
(* init_DB, phase by phase.  An exception that no try/except of init_DB    *)
(* catches ends the run (the finally clause closes the connection).        *)

Init ==
  /\ db = EmptyDb
  /\ schema \in StartSchemas
  /\ pc = "idle"
  /\ runs = 0
  /\ memo = <<>>
  /\ queue = <<>>
  /\ snap = EmptyDb
  /\ last = Last("none", NoErr, 0, Null)
  /\ ops = 0
  /\ batch = <<>>

Start ==
  /\ pc = "idle"
  /\ ops = 0
  /\ runs < MaxRuns
  /\ pc' = "schema"
  /\ runs' = runs + 1
  /\ snap' = db
  /\ last' = Last("start", NoErr, 0, Null)
  /\ UNCHANGED <<db, schema, memo, queue, ops, batch>>

\* init_db(conn)
SchemaPhase ==
  /\ pc = "schema"
  /\ \E r \in {init_db(schema)} :
         /\ schema' = r.schema
         /\ pc' = PhaseAfterSchema(r.err)
         /\ last' = LastCall("init_db", r.err, 0, Null, schema)
  /\ db' = RowsAfterInitDb(db)
  /\ UNCHANGED <<runs, memo, queue, snap, ops, batch>>

\* [s for s in seasons_all if s.get("id") in SEASONS]
RECURSIVE InRange(_, _)
InRange(seasons_all, i) ==
  IF i > Len(seasons_all) THEN <<>>
  ELSE (IF Get(seasons_all[i], "id") # Null /\ Get(seasons_all[i], "id")[1] \in SEASONS
        THEN <<seasons_all[i]>> ELSE <<>>) \o InRange(seasons_all, i + 1)

\* 1) seasons
SeasonsPhase ==
  /\ pc = "seasons"
  /\ IF table_has_rows(db, "Season")
     THEN /\ pc' = "teams"
          /\ last' = Last("skip_seasons", NoErr, 0, Null)
          /\ UNCHANGED <<db, memo>>
     ELSE \E resp \in SeasonResponses :
            /\ SeasonsSel \in Fresh => resp = memo[SeasonsSel]
            /\ \E r \in {upsert_seasons(db, InRange(get_list(resp), 1))} :
                 /\ db' = r.db
                 /\ pc' = IF r.err # NoErr THEN "idle" ELSE "teams"
                 /\ last' = Last("upsert_seasons", r.err, 0, Null)
            /\ memo' = Put(memo, SeasonsSel, resp)
  /\ UNCHANGED <<schema, runs, queue, snap, ops, batch>>

\* 2) teams
TeamsPhase ==
  /\ pc = "teams"
  /\ IF table_has_rows(db, "Team")
     THEN /\ pc' = "players"
          /\ last' = Last("skip_teams", NoErr, 0, Null)
          /\ UNCHANGED <<db, memo>>
     ELSE \E resp \in TeamResponses :
            /\ TeamsSel \in Fresh => resp = memo[TeamsSel]
            /\ \E r \in {upsert_teams(db, get_list(resp))} :
                 /\ db' = r.db
                 /\ pc' = IF r.err # NoErr THEN "idle" ELSE "players"
                 /\ last' = Last("upsert_teams", r.err, 0, Null)
            /\ memo' = Put(memo, TeamsSel, resp)
  /\ UNCHANGED <<schema, runs, queue, snap, ops, batch>>

\* SELECT team_id, COALESCE(rawTricode, triCode) FROM Team WHERE rawTricode IS NOT NULL
\* OR triCode IS NOT NULL, kept when the code is truthy; as (season, team) pairs
RosterPairs(d) ==
  LET teams == SortedSeq({t \in DOMAIN d.Team :
                 ~FalsyStr(Coalesce(d.Team[t].rawTricode, d.Team[t].triCode))})
      seasons == SortedSeq(SEASONS)
  IN  [i \in 1..(Len(seasons) * Len(teams)) |->
         <<seasons[((i - 1) \div Len(teams)) + 1], teams[((i - 1) % Len(teams)) + 1]>>]

\* try: upsert_players_from_roster(...) except Exception: continue
RECURSIVE RosterLoop(_, _, _, _, _)
RECURSIVE NextRoster(_, _, _, _, _, _)

\* one (season, team, tricode) of the loop, and what follows it
RosterOf(d, season_id, team_id, tricode, pairs, i, P, fetched) ==
  NextRoster(upsert_players_from_roster(d, season_id, tricode, team_id,
                                        P[RosterSel(tricode[1], season_id)]),
             RosterSel(tricode[1], season_id), pairs, i, P, fetched)

NextRoster(r, sel, pairs, i, P, fetched) ==
  RosterLoop(r.db, pairs, i + 1, P, IF r.fetched THEN fetched \cup {sel} ELSE fetched)

RosterLoop(d, pairs, i, P, fetched) ==
  IF i > Len(pairs) THEN [db |-> d, fetched |-> fetched]
  ELSE RosterOf(d, pairs[i][1], pairs[i][2],
                Coalesce(d.Team[pairs[i][2]].rawTricode, d.Team[pairs[i][2]].triCode),
                pairs, i, P, fetched)

\* 3) players
PlayersPhase ==
  /\ pc = "players"
  /\ IF table_has_rows(db, "Player")
     THEN /\ last' = Last("skip_players", NoErr, 0, Null)
          /\ UNCHANGED <<db, memo>>
     ELSE \E roster \in [Unfetched(RosterSels) -> RosterResponses] :
            \E P \in {Provider(RosterSels, <<>>, roster)} :
              \E r \in {RosterLoop(db, RosterPairs(db), 1, P, {})} :
                /\ db' = r.db
                /\ memo' = Remember(P, r.fetched)
                /\ last' = Last("players", NoErr, 0, Null)
  /\ pc' = "games"
  /\ UNCHANGED <<schema, runs, queue, snap, ops, batch>>

\* a variant that upserts every game of the list, stored or not
NewGamesAll(games, existing, i) == games

\* [g for g in games if g.get("id") not in existing_game_ids]
RECURSIVE NewGames(_, _, _)
NewGames(games, existing, i) ==
  IF i > Len(games) THEN <<>>
  ELSE (IF Get(games[i], "id") = Null \/ Get(games[i], "id")[1] \notin existing
        THEN <<games[i]>> ELSE <<>>) \o NewGames(games, existing, i + 1)

\* the ids of the items of a list whose id is not None
IdsOf(games) == {Get(games[i], "id")[1] : i \in {j \in 1..Len(games) : Get(games[j], "id") # Null}}

\* the loop over SEASONS of phase 4: [db, err, all] with all = all_games_in_range
RECURSIVE GamesLoop(_, _, _, _, _, _)
\* after upsert_games_basic(conn, new_games) returned r
NextGames(r, seasons, i, G, existing, all) ==
  IF r.err # NoErr THEN [db |-> r.db, err |-> r.err, all |-> all]
  ELSE GamesLoop(r.db, seasons, i + 1, G, existing, all)

\* one season's games, of which new_games are not stored yet
GamesOf(d, games, new_games, seasons, i, G, existing, all) ==
  IF Len(new_games) = 0
  THEN GamesLoop(d, seasons, i + 1, G, existing, all \o games)
  ELSE NextGames(upsert_games_basic(d, new_games), seasons, i, G,
                 existing \cup IdsOf(new_games), all \o games)

GamesLoop(d, seasons, i, G, existing, all) ==
  IF i > Len(seasons) THEN [db |-> d, err |-> NoErr, all |-> all]
  ELSE GamesOf(d, get_list(G[GamesSel(seasons[i])]),
               NewGames(get_list(G[GamesSel(seasons[i])]), existing, 1),
               seasons, i, G, existing, all)

\* to_process: the fetched games with a truthy id and no stored Event
RECURSIVE ToProcess(_, _, _)
ToProcess(d, all, i) ==
  IF i > Len(all) THEN <<>>
  ELSE (IF ~FalsyInt(Get(all[i], "id")) /\ ~game_has_events(d, Get(all[i], "id")[1])
        THEN <<Get(all[i], "id")[1]>> ELSE <<>>) \o ToProcess(d, all, i + 1)

GamesSels == {GamesSel(s) : s \in SEASONS}

\* 4) games, and the computation of to_process that follows it
GamesPhase ==
  /\ pc = "games"
  /\ \E games \in [Unfetched(GamesSels) -> GameResponses] :
       \E G \in {Provider(GamesSels, <<>>, games)} :
         \E r \in {GamesLoop(db, SortedSeq(SEASONS), 1, G, existing_ids(db, "Game"), <<>>)} :
           \E q \in {ToProcess(r.db, r.all, 1)} :
             /\ db' = r.db
             /\ memo' = Remember(G, GamesSels)
             /\ last' = Last("upsert_games_basic", r.err, 0, Null)
             /\ queue' = IF r.err # NoErr THEN <<>> ELSE q
             /\ pc' = IF r.err # NoErr THEN "idle"
                      ELSE IF Len(q) = 0 THEN "repair" ELSE "events"
  /\ UNCHANGED <<schema, runs, snap, ops, batch>>

\* SELECT hasPlays FROM Game WHERE game_id = ?; Null when there is no row
StoredHasPlays(d, gid) == IF gid \in DOMAIN d.Game THEN d.Game[gid].hasPlays ELSE Null

\* a variant that attempts every game of to_process
ShouldAttemptAlways(d, gid) == TRUE

\* row is None or row[0] is None or row[0] == 1
ShouldAttempt(d, gid) == StoredHasPlays(d, gid) = Null \/ StoredHasPlays(d, gid) = Some(1)

\* a variant that removes the Game row of a game confirmed empty
MarkNoPlaysDelete(d, gid) ==
  [d EXCEPT !.Game = [g \in DOMAIN d.Game \ {gid} |-> d.Game[g]]]

\* UPDATE Game SET hasPlays = 0 WHERE game_id = ?
MarkNoPlays(d, gid) ==
  IF gid \in DOMAIN d.Game THEN [d EXCEPT !.Game[gid].hasPlays = Some(0)] ELSE d

\* the except clause of the per-game loop
AfterAttempt(r, gid) == IF r.err # NoErr /\ MessageHas404(r.err) THEN MarkNoPlays(r.db, gid) ELSE r.db

\* 5) events: one game of to_process
EventsPhase ==
  /\ pc = "events"
  /\ \E gid \in {Head(queue)} :
         IF ShouldAttempt(db, gid)
         THEN \E pbp \in [Unfetched({PbpSel(gid)}) -> PbpResponses],
                 roster \in [Unfetched(RosterSels) -> RosterResponses] :
                \E P \in {Provider({PbpSel(gid)} \cup RosterSels, pbp, roster)} :
                  \E r \in {upsert_events_for_game(db, gid, P)} :
                    /\ db' = AfterAttempt(r, gid)
                    /\ memo' = Remember(P, r.fetched)
                    /\ last' = Last("upsert_events_for_game", r.err, gid, StoredHasPlays(db, gid))
         ELSE /\ last' = Last("skip_events", NoErr, gid, StoredHasPlays(db, gid))
              /\ UNCHANGED <<db, memo>>
  /\ queue' = Tail(queue)
  /\ pc' = IF Len(queue) = 1 THEN "repair" ELSE "events"
  /\ UNCHANGED <<schema, runs, snap, ops, batch>>

AllStarSels(d) == {PbpSel(g) : g \in {x \in DOMAIN d.Game : d.Game[x].gameType = Some(AllStarGameType)}}

\* repair_allstar_teams(conn)
RepairPhase ==
  /\ pc = "repair"
  /\ \E pbp \in [Unfetched(AllStarSels(db)) -> PbpResponses] :
       \E P \in {Provider(AllStarSels(db), pbp, <<>>)} :
         \E r \in {repair_allstar_teams(db, P)} :
           /\ db' = r.db
           /\ memo' = Remember(P, r.fetched)
           /\ last' = Last("repair_allstar_teams", r.err, 0, Null)
           /\ pc' = IF r.err # NoErr THEN "idle" ELSE "backfill"
  /\ UNCHANGED <<schema, runs, queue, snap, ops, batch>>

\* backfill_shot_columns_if_needed(conn), then the run is over
BackfillPhase ==
  /\ pc = "backfill"
  /\ db' = backfill_shot_columns_if_needed(db)
  /\ last' = Last("backfill_shot_columns_if_needed", NoErr, 0, Null)
  /\ pc' = "idle"
  /\ UNCHANGED <<schema, runs, memo, queue, snap, ops, batch>>

Next ==
  \/ Start
  \/ SchemaPhase
  \/ SeasonsPhase
  \/ TeamsPhase
  \/ PlayersPhase
  \/ GamesPhase
  \/ EventsPhase
  \/ RepairPhase
  \/ BackfillPhase

Spec == Init /\ [][Next]_vars

----------------------------------------------------------------------------
(* init_DB run again against a provider whose answers are not those of the *)
(* earlier run: a fetch that failed may succeed, a list may hold other     *)
(* items.  Between two runs the responses remembered are marked stale: a   *)
(* fetch of the next run is answered afresh and replaces the stale entry,  *)
(* so that an entry still stale was fetched in an earlier run only.        *)

ProviderChanges ==
  /\ pc = "idle" /\ ops = 0
  /\ runs >= 1 /\ runs < MaxRuns
  /\ Fresh # {}
  /\ memo' = [sel \in DOMAIN memo |-> MarkStale(memo[sel])]
  /\ UNCHANGED <<db, schema, pc, runs, queue, snap, last, ops, batch>>

NextAnyProvider ==
  \/ Next
  \/ ProviderChanges

SpecAnyProvider == Init /\ [][NextAnyProvider]_vars

----------------------------------------------------------------------------
(* The operations of db.py called directly, in any order, on a connection  *)
(* whose schema init_db made.  snap is the store before the call, last the *)
(* call and how it ended.  The provider may answer each call differently.  *)

CanCall == pc = "idle" /\ runs = 0 /\ ops < MaxOps

CalledWith(op, r, gid, arg) ==
  /\ db' = r.db
  /\ snap' = db
  /\ last' = LastCall(op, r.err, gid, StoredHasPlays(db, gid), arg)
  /\ ops' = ops + 1
  /\ UNCHANGED <<schema, pc, runs, memo, queue, batch>>

Called(op, r, gid) == CalledWith(op, r, gid, <<>>)

CallInitDb ==
  /\ CanCall
  /\ \E r \in {init_db(schema)} :
       /\ schema' = r.schema
       /\ last' = LastCall("init_db", r.err, 0, Null, schema)
  /\ db' = RowsAfterInitDb(db)
  /\ snap' = db
  /\ ops' = ops + 1
  /\ UNCHANGED <<pc, runs, memo, queue, batch>>

CallUpsertSeasons ==
  /\ CanCall /\ SchemaReady(schema)
  /\ \E seasons \in SeasonLists : Called("upsert_seasons", upsert_seasons(db, seasons), 0)

CallUpsertTeams ==
  /\ CanCall /\ SchemaReady(schema)
  /\ \E teams \in TeamLists : Called("upsert_teams", upsert_teams(db, teams), 0)

\* team documents: complete, id only, and one whose commonName is JSON null
PbpTeams == {PbpTeam, [id |-> Some(1)], [id |-> Some(2), commonName |-> Null]}

CallUpsertTeamFromPbp ==
  /\ CanCall /\ SchemaReady(schema)
  /\ \E team_data \in PbpTeams :
       Called("upsert_team_from_pbp", upsert_team_from_pbp(db, team_data), 0)

CallEnsureTeam ==
  /\ CanCall /\ SchemaReady(schema)
  /\ \E team_id \in {Null, Some(1)} :
       Called("ensure_team", [db |-> ensure_team(db, team_id), err |-> NoErr], 0)

CallUpsertGamesBasic ==
  /\ CanCall /\ SchemaReady(schema)
  /\ \E games \in GameLists :
       CalledWith("upsert_games_basic", upsert_games_basic(db, games), 0, games)

CallUpsertPlayersFromRoster ==
  /\ CanCall /\ SchemaReady(schema)
  /\ \E season_id \in SEASONS, team_id \in {1, 3}, resp \in RosterResponses :
       CalledWith("upsert_players_from_roster",
                  upsert_players_from_roster(db, season_id, Some("MTL"), team_id, resp), 0,
                  [season_id |-> Some(season_id), team_id |-> team_id, resp |-> resp])

CallUpsertPlayersFromPbpRoster ==
  /\ CanCall /\ SchemaReady(schema)
  /\ \E season_id \in {Null} \cup {Some(x) : x \in SEASONS},
        roster_spots \in {<<Spot(1)>>, <<SpotBorn(1)>>, <<Spot(3), [playerId |-> Some(9)]>>} :
       CalledWith("upsert_players_from_pbp_roster",
                  upsert_players_from_pbp_roster(db, season_id, roster_spots), 0,
                  [season_id |-> season_id, spots |-> roster_spots])

CallEnsureTeamRoster ==
  /\ CanCall /\ SchemaReady(schema)
  /\ \E season_id \in SEASONS, team_id \in {1, 3},
        roster \in [RosterSels -> RosterResponses] :
       CalledWith("ensure_team_roster",
                  ensure_team_roster(db, Some(season_id), Some(team_id), roster), 0,
                  [season_id |-> Some(season_id), team_id |-> team_id,
                   resp |-> roster[RosterSel("MTL", season_id)]])

CallUpsertEventsForGame ==
  /\ CanCall /\ SchemaReady(schema)
  /\ \E game_id \in {GameA, Game404} :
       \E pbp \in [{PbpSel(game_id)} -> PbpResponses],
          roster \in [RosterSels -> RosterResponses] :
         CalledWith("upsert_events_for_game",
                    upsert_events_for_game(db, game_id,
                       Provider({PbpSel(game_id)} \cup RosterSels, pbp, roster)),
                    game_id, pbp[PbpSel(game_id)])

CallRepairAllstarTeams ==
  /\ CanCall /\ SchemaReady(schema)
  /\ \E pbp \in [AllStarSels(db) -> PbpResponses] :
       Called("repair_allstar_teams", repair_allstar_teams(db, pbp), 0)

CallBackfill ==
  /\ CanCall /\ SchemaReady(schema)
  /\ Called("backfill_shot_columns_if_needed",
            [db |-> backfill_shot_columns_if_needed(db), err |-> NoErr], 0)

NextOps ==
  \/ CallInitDb
  \/ CallUpsertSeasons
  \/ CallUpsertTeams
  \/ CallUpsertTeamFromPbp
  \/ CallEnsureTeam
  \/ CallUpsertGamesBasic
  \/ CallUpsertPlayersFromRoster
  \/ CallUpsertPlayersFromPbpRoster
  \/ CallEnsureTeamRoster
  \/ CallUpsertEventsForGame
  \/ CallRepairAllstarTeams
  \/ CallBackfill

SpecOps == Init /\ [][NextOps]_vars

-----------------------------------------------------------------------------
(* backfill_shot_columns_if_needed, statement by statement, called on a    *)
(* store whose Event rows were written before the shot columns were        *)
(* filled.  pc is the position in the function: "bf_check" at the quick    *)
(* check, "bf_select" at the top of the loop, "bf_update" before the batch *)
(* update, "bf_done" after the return.                                     *)

\* batch_size = 10000 in the source; small here so that a store of a few rows
\* takes more than one batch
BatchSize == 2

MaxEventRows == 4

\* a stored Event row with the given type, details text and xCoord
StoredEvent(type, details_json, x) ==
  [typeDescKey |-> type, details_json |-> details_json, xCoord |-> x,
   yCoord |-> Null, shotType |-> Null, shootingPlayerId |-> Null,
   goalieInNetId |-> Null, zoneCode |-> Null,
   emptyNet |-> Null, situationCode |-> Some("1551"), homeTeamDefendingSide |-> Null]

\* a text that json.loads rejects
NotJson == [text |-> "{oops"]

StoredEvents ==
  { StoredEvent(Some("shot-on-goal"), Some(json_dumps([xCoord |-> Some(55)])), Null),
    StoredEvent(Some("goal"), Some(json_dumps([emptyNet |-> Some(1)])), Null),
    StoredEvent(Some("goal"), Some(json_dumps([xCoord |-> Some(NaN)])), Null),
    StoredEvent(Some("missed-shot"), Some(NotJson), Null),
    StoredEvent(Some("shot-on-goal"), Some(json_dumps([xCoord |-> Some(55)])), Some(55)),
    StoredEvent(Some("faceoff"), Some(json_dumps([xCoord |-> Some(7)])), Null),
    StoredEvent(Some("goal"), Null, Null),
    StoredEvent(Null, Some(json_dumps([xCoord |-> Some(7)])), Null) }

EventKeys(n) == {<<GameA, i>> : i \in 1..n}

EventTables == UNION {[EventKeys(n) -> StoredEvents] : n \in 1..MaxEventRows}

InitBackfill ==
  /\ \E tbl \in EventTables :
       /\ db = [EmptyDb EXCEPT !.Game = (GameA :> GameStub), !.Event = tbl]
       /\ snap = [EmptyDb EXCEPT !.Game = (GameA :> GameStub), !.Event = tbl]
  /\ schema = init_db(NoSchema)
  /\ pc = "bf_check"
  /\ runs = 0
  /\ memo = <<>>
  /\ queue = <<>>
  /\ last = Last("none", NoErr, 0, Null)
  /\ ops = 0
  /\ batch = <<>>

\* the quick check: return when no row qualifies
BackfillCheck ==
  /\ pc = "bf_check"
  /\ pc' = IF Qualifying(db) = {} THEN "bf_done" ELSE "bf_select"
  /\ UNCHANGED <<db, schema, runs, memo, queue, snap, last, ops, batch>>

\* rows = cur.fetchall() of the batch SELECT; break when it is empty
BackfillSelect ==
  /\ pc = "bf_select"
  /\ \E S \in SelectLimit(db, BatchSize) :
       /\ batch' = [k \in S |-> db.Event[k].details_json]
       /\ pc' = IF S = {} THEN "bf_done" ELSE "bf_update"
  /\ UNCHANGED <<db, schema, runs, memo, queue, snap, last, ops>>

\* with conn: executemany(UPDATE Event SET ... WHERE game_id = ? AND eventId = ?)
BackfillUpdate ==
  /\ pc = "bf_update"
  /\ db' = [db EXCEPT !.Event =
              [k \in DOMAIN db.Event |->
                 IF k \in DOMAIN batch THEN ShotUpdate(db.Event[k], batch[k])
                 ELSE db.Event[k]]]
  /\ pc' = "bf_select"
  /\ UNCHANGED <<schema, runs, memo, queue, snap, last, ops, batch>>

NextBackfill ==
  \/ BackfillCheck
  \/ BackfillSelect
  \/ BackfillUpdate

SpecBackfill == InitBackfill /\ [][NextBackfill]_vars

\* the function keeps running until it returns
FairSpecBackfill == SpecBackfill /\ WF_vars(NextBackfill)

----------------------------------------------------------------------------
(* Properties.  Under Spec, snap is the store at the start of the current  *)
(* run; under SpecOps, the store before the last call.                     *)

\* the response the provider gave for the play-by-play of the last game
LastPbp == memo[PbpSel(last.gid)]

AttemptedEvents == last.op = "upsert_events_for_game"

\* C1: a second complete run of init_DB against the same provider responses
\* leaves the store as the first run left it.
C1_SecondRunChangesNothing ==
  (pc = "idle" /\ runs = 2 /\ last.op = "backfill_shot_columns_if_needed") => db = snap

\* the operations that write Team or Player rows
TeamPlayerWriters ==
  {"upsert_teams", "upsert_team_from_pbp", "ensure_team", "upsert_players_from_roster",
   "upsert_players_from_pbp_roster", "ensure_team_roster"}

\* every column of the rows of table t that was non-null before the call still is
KeepsNonNull(t) ==
  \A k \in DOMAIN snap[t] :
    /\ k \in DOMAIN db[t]
    /\ \A col \in DOMAIN snap[t][k] : snap[t][k][col] # Null => db[t][k][col] # Null

\* C2: enrich-never-erase: no operation that writes Team or Player rows turns
\* a non-null column of an existing row into null.
C2_EnrichNeverErase ==
  last.op \in TeamPlayerWriters => KeepsNonNull("Team") /\ KeepsNonNull("Player")

\* C3: a game whose stored hasPlays is 1 is never handed to
\* upsert_events_for_game again by the driver.
C3_FlaggedGameSkipped == AttemptedEvents => last.before # Some(1)

\* C4: when the ingestion of a game fails and the provider did not answer
\* not-found for its play-by-play, the game's hasPlays keeps its value.
C4_FlagKeptOnOtherFailure ==
  (AttemptedEvents /\ last.err # NoErr /\ LastPbp.status # "404")
    => StoredHasPlays(db, last.gid) = last.before

\* C5: when the provider answers not-found (404) for a game's play-by-play,
\* the driver sets the game's hasPlays to 0 in the same run.
C5_NotFoundMarksNoPlays ==
  (AttemptedEvents /\ LastPbp.status = "404") => StoredHasPlays(db, last.gid) = Some(0)

\* C6: every Event row's game_id is the id of a Game row, and a call of
\* upsert_events_for_game for a game without a Game row writes no Event.
C6_EventsHaveGame ==
  /\ \A k \in DOMAIN db.Event : k[1] \in DOMAIN db.Game
  /\ (AttemptedEvents /\ last.gid \notin DOMAIN snap.Game) => db.Event = snap.Event

\* events are stored, and the last call was refused by the guard on the Game row
C6_GuardFired ==
  /\ AttemptedEvents
  /\ last.err = Err("RuntimeError:GameNotFound", last.gid)
  /\ db.Event # <<>>

\* the value v of a foreign-key column is null or a key of the table tbl
RefOk(v, tbl) == v = Null \/ v[1] \in DOMAIN tbl

\* C7: each Game row's non-null season_id, homeTeamId and awayTeamId are keys
\* of Season and Team rows, and the Season and Team rows that a call of
\* upsert_games_basic adds are stubs holding only the id.
C7_GameRefsExist ==
  /\ \A g \in DOMAIN db.Game :
       /\ RefOk(db.Game[g].season_id, db.Season)
       /\ RefOk(db.Game[g].homeTeamId, db.Team)
       /\ RefOk(db.Game[g].awayTeamId, db.Team)
  /\ last.op = "upsert_games_basic" =>
       /\ \A x \in DOMAIN db.Season \ DOMAIN snap.Season : db.Season[x] = SeasonStub
       /\ \A t \in DOMAIN db.Team \ DOMAIN snap.Team : db.Team[t] = TeamStub

\* a call of upsert_games_basic wrote a Game whose Season and home Team rows
\* did not exist before the call
C7_StubCreated ==
  /\ last.op = "upsert_games_basic" /\ last.err = NoErr
  /\ \E g \in DOMAIN db.Game \ DOMAIN snap.Game :
       /\ db.Game[g].season_id # Null /\ db.Game[g].season_id[1] \notin DOMAIN snap.Season
       /\ db.Game[g].homeTeamId # Null /\ db.Game[g].homeTeamId[1] \notin DOMAIN snap.Team

AfterBackfill == last.op = "backfill_shot_columns_if_needed"

C9_AllOrNothing == (AttemptedEvents /\ last.err # NoErr) => db = snap

\* the operations that write their rows as one batch
BatchOps ==
  {"upsert_seasons", "upsert_teams", "upsert_games_basic", "upsert_players_from_roster"}

\* every row of `now` is a row of `before` or a stub
OnlyStubsAdded(before, now, stub) ==
  \A k \in DOMAIN now : IF k \in DOMAIN before THEN now[k] = before[k] ELSE now[k] = stub

\* C10: when a call of upsert_seasons, upsert_teams, upsert_games_basic or
\* upsert_players_from_roster fails, no row of its batch is persisted: the
\* store is as before the call, except for the Season and Team stubs that
\* upsert_games_basic inserted before its batch of Game rows.
C10_BatchAtomic ==
  (last.op \in BatchOps /\ last.err # NoErr) =>
    /\ db.Game = snap.Game /\ db.Player = snap.Player
    /\ db.Roster = snap.Roster /\ db.Event = snap.Event
    /\ last.op # "upsert_games_basic" => db = snap
    /\ OnlyStubsAdded(snap.Season, db.Season, SeasonStub)
    /\ OnlyStubsAdded(snap.Team, db.Team, TeamStub)

\* C10 as stated: after a failed call the store is in its pre-call state.
C10_PreCallState == (last.op \in BatchOps /\ last.err # NoErr) => db = snap

\* a failed upsert_games_basic left stubs behind and no Game row
C10_StubsKept ==
  /\ last.op = "upsert_games_basic" /\ last.err # NoErr
  /\ db # snap /\ db.Game = snap.Game

\* the run ended before it reached the event column backfill
RunAborted == pc = "idle" /\ runs > 0 /\ last.op # "backfill_shot_columns_if_needed"

\* the provider's unavailable result for a play-by-play reached the operation
\* that ran last and made it raise (data.get on None)
UnavailableRaised ==
  /\ last.err = Err("AttributeError", 0)
  /\ \E sel \in DOMAIN memo : sel.kind = "pbp" /\ memo[sel].status # "ok"

\* C11: a fetch for which the provider returns its unavailable result, in any
\* phase and in the team-name repair, never ends the run: the phases that
\* follow, and the event column backfill last, still execute.
C11_FetchFailureNeverAborts == RunAborted => ~UnavailableRaised

AfterInitDb == last.op = "init_db"

\* C12: whatever schema init_db starts from (no file, a Game table without
\* hasPlays, an Event table without the shot columns), after it the Event
\* table has xCoord, yCoord, shotType, shootingPlayerId, goalieInNetId,
\* zoneCode and emptyNet, Game has hasPlays, and every row is still there.
C12_ConvergesToTarget ==
  AfterInitDb =>
    /\ EventShotCols \subseteq schema.Event
    /\ "hasPlays" \in schema.Game
    /\ db = snap

\* the last call was init_db on a store that an earlier init_db produced:
\* only init_db changes the schema, and what it leaves is no start schema
OnProducedStore == AfterInitDb /\ last.arg \notin StartSchemas

\* C13: a second call of init_db on the store it produced changes neither
\* the schema (tables, columns, indexes) nor any row.
C13_InitDbIdempotent == OnProducedStore => (schema = last.arg /\ db = snap)

\* init_db ran again, without error, on a store that holds rows
C13_SecondCallOnRows ==
  /\ OnProducedStore /\ last.err = NoErr
  /\ db.Game # <<>> /\ db.Event # <<>>

\* C14: when init_db fails, the run is over at once: no provider fetch was
\* issued and no row was written in that run.
C14_SchemaFailureAborts ==
  (AfterInitDb /\ last.err # NoErr) => (pc = "idle" /\ db = snap /\ memo = <<>>)

\* the migration failed again in the second run
C14_AbortedTwice == AfterInitDb /\ last.err # NoErr /\ runs = 2 /\ pc = "idle"

\* the columns of Game that upsert_games_basic writes, with the key of the
\* game item each is bound to
WrittenGameCols ==
  { <<"season_id", "season">>, <<"gameType", "gameType">>, <<"homeTeamId", "homeTeamId">>,
    <<"awayTeamId", "visitingTeamId">>, <<"homeScore", "homeScore">> }

UpsertedGames == last.op = "upsert_games_basic" /\ last.err = NoErr

\* C15: after upsert_games_basic, the row of every game id of the call holds,
\* in every column the statement writes, the value of the (last) item with
\* that id, null included, whatever the row held before.
C15_GameOverwrite ==
  UpsertedGames =>
    \A i \in 1..Len(last.arg) :
      (/\ last.arg[i]["id"] # Null
       /\ \A j \in (i + 1)..Len(last.arg) : last.arg[j]["id"] # last.arg[i]["id"])
      => \A c \in WrittenGameCols :
           db.Game[last.arg[i]["id"][1]][c[1]] = last.arg[i][c[2]]

\* one call replaced a null homeScore by 3 in one existing row and a
\* homeScore 3 by null in another
C15_BothOrders ==
  /\ UpsertedGames
  /\ \E a, b \in DOMAIN snap.Game :
       /\ snap.Game[a].homeScore = Null /\ db.Game[a].homeScore = Some(3)
       /\ snap.Game[b].homeScore = Some(3) /\ db.Game[b].homeScore = Null

\* the season list the provider returned to this store's seasons phase
FetchedSeasons == get_list(memo[SeasonsSel])

\* C16: after the seasons phase ran on an empty Season table, the table
\* holds exactly one row per fetched season whose id is in SEASONS, and no
\* row for a fetched season outside the range.
C16_SeasonRowsInRange ==
  last.op = "upsert_seasons" => DOMAIN db.Season = IdsOf(FetchedSeasons) \cap SEASONS

\* the Player and Roster upsert paths
PlayerRosterPaths ==
  {"upsert_players_from_roster", "upsert_players_from_pbp_roster", "ensure_team_roster"}

\* the players of the roster document of a response, none when unavailable
DocPlayers(resp) ==
  IF resp.status # "ok" THEN <<>>
  ELSE WithId(Concat(resp.doc, <<"forwards", "defensemen", "goalies">>, 1), "id", 1)

\* the incoming records of the last call, as the provider's documents give
\* them: [player_id, firstName, birthDate] with the Roster key and number
IncomingOf(season_id, team_id, pid, first, born, number) ==
  [season_id |-> season_id, team_id |-> team_id, player_id |-> pid,
   firstName |-> first, birthDate |-> born, sweaterNumber |-> number]

Incoming ==
  IF last.op = "upsert_players_from_pbp_roster"
  THEN {IncomingOf(last.arg.season_id, Get(r, "teamId"), Get(r, "playerId"),
                   db_def(Get(r, "firstName")), Get(r, "birthDate"),
                   Get(r, "sweaterNumber")) : r \in Range(UsableSpots(last.arg.spots, 1))}
  ELSE {IncomingOf(last.arg.season_id, Some(last.arg.team_id), Get(p, "id"),
                   api_def(Get(p, "firstName")), Get(p, "birthDate"),
                   Get(p, "sweaterNumber")) : p \in Range(DocPlayers(last.arg.resp))}

\* the Roster key of an incoming record whose season is known
RosterKey(rec) == <<rec.season_id[1], rec.team_id[1], rec.player_id[1]>>

\* C17: in each Player/Roster upsert path, for a row that already exists,
\* every column takes the incoming value when that value is non-null and
\* keeps the stored value when it is null.
C17_PlayerRosterEnrich ==
  last.op \in PlayerRosterPaths =>
    \A rec \in Incoming :
      /\ rec.player_id[1] \in DOMAIN snap.Player =>
           \A c \in {"firstName", "birthDate"} :
             db.Player[rec.player_id[1]][c]
               = Coalesce(rec[c], snap.Player[rec.player_id[1]][c])
      /\ (rec.season_id # Null /\ RosterKey(rec) \in DOMAIN snap.Roster) =>
           db.Roster[RosterKey(rec)].sweaterNumber
             = Coalesce(rec.sweaterNumber, snap.Roster[RosterKey(rec)].sweaterNumber)

Tables == {"Season", "Team", "Game", "Player", "Roster", "Event"}

\* C18: no step of init_DB, in any run, removes a row: the set of primary
\* keys of each of the six tables only grows.
C18_KeysOnlyGrow == [][\A t \in Tables : DOMAIN db[t] \subseteq DOMAIN db'[t]]_vars

\* the second run went through all its phases on a store that had rows in
\* all six tables
C18_SecondRunOnFullStore ==
  /\ runs = 2 /\ pc = "idle" /\ last.op = "backfill_shot_columns_if_needed"
  /\ \A t \in Tables : snap[t] # <<>>

\* C19: in every state the driver reaches, a Game has hasPlays = 1 exactly
\* when at least one Event of that game is stored.
C19_FlagMatchesEvents ==
  \A g \in DOMAIN db.Game : (db.Game[g].hasPlays = Some(1)) <=> game_has_events(db, g)

\* the games whose stored hasPlays is 0
FlaggedEmpty(d) == {g \in DOMAIN d.Game : d.Game[g].hasPlays = Some(0)}

\* the Event rows of game g
EventRowsOf(d, g) == [k \in {x \in DOMAIN d.Event : x[1] = g} |-> d.Event[k]]

\* C20: once a Game's stored hasPlays is 0, no step of the driver, in this
\* run or a later one, calls upsert_events_for_game for that game, changes
\* its hasPlays, or writes an Event row for it.
C20_NoPlaysIsTerminal ==
  [][\A g \in FlaggedEmpty(db) :
        /\ g \in FlaggedEmpty(db')
        /\ EventRowsOf(db', g) = EventRowsOf(db, g)
        /\ ~(last'.op = "upsert_events_for_game" /\ last'.gid = g)]_vars

\* a later run found the game in to_process with hasPlays = 0 and skipped it
C20_SkippedInLaterRun ==
  /\ runs = 2 /\ last.op = "skip_events" /\ last.before = Some(0)
  /\ last.gid \in FlaggedEmpty(snap)

\* the games phase of this run ended without error, and to_process is built
GamesPhaseDone == last.op = "upsert_games_basic" /\ last.err = NoErr

\* every game-list fetch of this run returned the provider's unavailable result
GameFetchesFailed == \A sel \in GamesSels : memo[sel].status # "ok"

\* the Game rows of the store that have no stored Event
GamesWithoutEvents(d) == {g \in DOMAIN d.Game : ~game_has_events(d, g)}

\* C21: in a run whose game-list fetches failed, as in any other, the games
\* considered for event ingestion (to_process) are all the Game rows of the
\* store that have no stored Event.
C21_CandidatesAreStoredGames ==
  (GamesPhaseDone /\ GameFetchesFailed) => Range(queue) = GamesWithoutEvents(db)

\* the run went through all its phases
RunComplete == pc = "idle" /\ last.op = "backfill_shot_columns_if_needed"

\* the roster request e of an earlier run did not end in stored rows: the
\* fetch failed, or the document had players and the write failed
RosterFailed(e) == e.status # "ok" \/ DocPlayers(e) # <<>>

\* the teams whose stored tricode (either column) is code
TeamsWithCode(d, code) ==
  {t \in DOMAIN d.Team : Some(code) \in {d.Team[t].rawTricode, d.Team[t].triCode}}

\* C22: a (season, team) pair whose roster fetch or write failed in an
\* earlier run, and that has no Roster row when the next run starts, has its
\* roster fetched again in that run.
C22_FailedPairRetried ==
  (RunComplete /\ runs = 2) =>
    \A sel \in DOMAIN memo :
      (sel.kind = "roster" /\ IsStale(memo[sel]) /\ RosterFailed(memo[sel]))
        => \A t \in TeamsWithCode(snap, sel.code) : HasRoster(snap, sel.id, t)

\* the (season, team) pairs of the game just ingested that ensure_team_roster
\* skipped because Roster rows existed for them: the rows were there when
\* the run started, and no row is ever removed
SkippedPairs ==
  IF AttemptedEvents /\ last.err = NoErr /\ last.gid \in DOMAIN snap.Game
  THEN {p \in {<<snap.Game[last.gid].season_id, snap.Game[last.gid].homeTeamId>>,
               <<snap.Game[last.gid].season_id, snap.Game[last.gid].awayTeamId>>} :
          p[1] # Null /\ p[2] # Null /\ HasRoster(snap, p[1][1], p[2][1])}
  ELSE {}

\* a roster document with players was fetched for the pair, in this run or
\* an earlier one
FullRosterFetched(season_id, team_id) ==
  \E sel \in DOMAIN memo :
    /\ sel.kind = "roster" /\ sel.id = season_id
    /\ team_id \in TeamsWithCode(db, sel.code)
    /\ memo[sel].status = "ok" /\ DocPlayers(memo[sel]) # <<>>

\* C23: whenever ensure_team_roster skips a (season, team) pair because
\* Roster rows exist for it, a full roster document was fetched for that
\* pair: the rows are not only those of a game's roster spots.
C23_SkippedPairHadFullFetch ==
  \A p \in SkippedPairs : FullRosterFetched(p[1][1], p[2][1])

\* the season list and the team list
BootstrapSels == {SeasonsSel, TeamsSel}

\* the fetch of sel failed in an earlier run and this run has not issued it
FailedAndNotRetried(sel) ==
  sel \in DOMAIN memo /\ memo[sel].status # "ok" /\ IsStale(memo[sel])

\* C24: when the season-list or team-list fetch failed in an earlier run, a
\* later run does not skip that phase: once its seasons and teams phases
\* are over it has issued the fetch again.
C24_FailedBootstrapRetried ==
  (runs = 2 /\ pc = "players") => \A sel \in BootstrapSels : ~FailedAndNotRetried(sel)

\* C25: the games phase leaves every Game row that exists before it as it
\* is, in every column, whatever the provider's lists hold for that id.
C25_ExistingGamesUntouched ==
  [][pc = "games" =>
       \A g \in DOMAIN db.Game : g \in DOMAIN db'.Game /\ db'.Game[g] = db.Game[g]]_vars

\* the items of the game lists this run fetched
FetchedGames == UNION {Range(get_list(memo[sel])) : sel \in GamesSels}

\* the games phase of a second run wrote a new game, and the provider's list
\* held another homeScore for a game that was stored before the run
C25_ChangedGameOffered ==
  /\ runs = 2 /\ GamesPhaseDone
  /\ DOMAIN db.Game # DOMAIN snap.Game
  /\ \E g \in FetchedGames :
       /\ BindOk(g, GameParams) /\ g["id"] # Null /\ g["id"][1] \in DOMAIN snap.Game
       /\ g["homeScore"] # snap.Game[g["id"][1]].homeScore

\* C26: in a run that starts with at least one Season row the seasons phase
\* issues no fetch and leaves the Season table as it is; likewise the teams
\* phase and the Team table.
C26_BootstrapSkip ==
  [][/\ (pc = "seasons" /\ snap.Season # <<>>) => (memo' = memo /\ db'.Season = db.Season)
     /\ (pc = "teams" /\ snap.Team # <<>>) => (memo' = memo /\ db'.Team = db.Team)]_vars

\* both phases of a second run were skipped although the provider would
\* have answered both lists afresh
C26_BothPhasesSkipped ==
  /\ runs = 2 /\ pc = "players" /\ last.op = "skip_teams"
  /\ snap.Season # <<>> /\ snap.Team # <<>>
  /\ \A sel \in BootstrapSels : sel \in DOMAIN memo /\ IsStale(memo[sel])

\* the event rows that build_pbp_rows made of the document of the last call
IncomingEvents == build_pbp_rows(last.gid, last.arg).events

\* the event of position i is the only one of the list with its eventId
OnlyOnce(evs, i) == \A j \in 1..Len(evs) : evs[j].eventId = evs[i].eventId => j = i

\* the stored row `now` is the row `old` merged with the incoming event ev:
\* the two enrich columns keep the stored value under a null, every other
\* column holds the incoming value (emptyNet normalised to 0/1)
MergedAsStated(now, old, ev) ==
  /\ now.situationCode = (IF ev.situationCode # Null THEN ev.situationCode
                          ELSE old.situationCode)
  /\ now.homeTeamDefendingSide = (IF ev.homeTeamDefendingSide # Null
                                  THEN ev.homeTeamDefendingSide
                                  ELSE old.homeTeamDefendingSide)
  /\ now.typeDescKey = ev.typeDescKey
  /\ now.details_json = ev.details_json
  /\ now.xCoord = ev.xCoord
  /\ now.emptyNet = Some(EmptyNetOf(ev))

\* C27: when upsert_events_for_game writes an event whose (game_id, eventId)
\* is already stored, situationCode and homeTeamDefendingSide keep the stored
\* value if the new value is null and take the new value otherwise, and every
\* other column takes the new value, null included.
C27_EventMerge ==
  (AttemptedEvents /\ last.err = NoErr) =>
    \A i \in 1..Len(IncomingEvents) :
      (/\ OnlyOnce(IncomingEvents, i)
       /\ <<last.gid, IncomingEvents[i].eventId>> \in DOMAIN snap.Event)
      => MergedAsStated(db.Event[<<last.gid, IncomingEvents[i].eventId>>],
                        snap.Event[<<last.gid, IncomingEvents[i].eventId>>],
                        IncomingEvents[i])

\* one call kept a stored situationCode under a null, replaced a null
\* situationCode by a value, and replaced a stored xCoord by null
C27_AllThreeCases ==
  /\ AttemptedEvents /\ last.err = NoErr
  /\ \E a, b \in DOMAIN snap.Event :
       /\ snap.Event[a].situationCode # Null
       /\ \E i \in 1..Len(IncomingEvents) :
            /\ a = <<last.gid, IncomingEvents[i].eventId>>
            /\ IncomingEvents[i].situationCode = Null
       /\ db.Event[a].situationCode = snap.Event[a].situationCode
       /\ snap.Event[b].situationCode = Null /\ db.Event[b].situationCode # Null
       /\ snap.Event[b].xCoord # Null /\ db.Event[b].xCoord = Null

\* the ids carried by the items of the game lists fetched so far
ProviderGameIds ==
  UNION {IdsOf(get_list(memo[sel])) : sel \in GamesSels \cap DOMAIN memo}

\* C28: every Game row is stored under an id that an item of a fetched game
\* list carries, and a second run over the same lists adds no Game row.
C28_GameIdsFromProvider ==
  /\ DOMAIN db.Game \subseteq ProviderGameIds
  /\ runs = 2 => DOMAIN db.Game \subseteq DOMAIN snap.Game

\* the loop of the backfill updated the rows of `batch` and is back at its top
BatchUpdated == pc = "bf_select" /\ batch # <<>>

BackfillReturned == pc = "bf_done"

\* C29: every row a batch of the backfill updated has a non-null xCoord, and
\* the backfill returns after finitely many batches.
C29_BackfillNeverNullAndEnds ==
  /\ [](BatchUpdated => \A k \in DOMAIN batch : db.Event[k].xCoord # Null)
  /\ <>BackfillReturned

\* a row the backfill has no business with
OutsideBackfill(ev) ==
  \/ ev.xCoord # Null
  \/ ev.details_json = Null
  \/ ev.typeDescKey = Null
  \/ ev.typeDescKey[1] \notin ShotTypes

\* the columns of a row other than the shot columns
NonShotColumns(ev) ==
  <<ev.typeDescKey, ev.details_json, ev.situationCode, ev.homeTeamDefendingSide>>

\* C30: a step of the backfill leaves every row unchanged whose xCoord is
\* non-null, whose details_json is null or whose type is not a shot type,
\* keeps the key, details_json and the non-shot columns of every other row,
\* adds and removes no Event row, leaves the other tables alone and fetches
\* nothing.
C30_BackfillFrame ==
  [][/\ DOMAIN db'.Event = DOMAIN db.Event
     /\ \A k \in DOMAIN db.Event :
          /\ OutsideBackfill(db.Event[k]) => db'.Event[k] = db.Event[k]
          /\ NonShotColumns(db'.Event[k]) = NonShotColumns(db.Event[k])
     /\ db' = [db EXCEPT !.Event = db'.Event]
     /\ memo' = memo]_vars

\* a batch rewrote a row while the store held a row with a coordinate, a row
\* without details and a row of another type with details and no coordinate
C30_UpdatedAmongOthers ==
  /\ BatchUpdated
  /\ \E k \in DOMAIN batch : db.Event[k] # snap.Event[k]
  /\ \E a, b, c \in DOMAIN snap.Event :
       /\ snap.Event[a].xCoord # Null
       /\ snap.Event[b].details_json = Null
       /\ snap.Event[c].typeDescKey = Some("faceoff")
       /\ snap.Event[c].details_json # Null /\ snap.Event[c].xCoord = Null
       /\ db.Event[a] = snap.Event[a] /\ db.Event[b] = snap.Event[b]
       /\ db.Event[c] = snap.Event[c]

\* the shot columns of an Event row
ShotColumns(ev) ==
  <<ev.xCoord, ev.yCoord, ev.shotType, ev.shootingPlayerId, ev.goalieInNetId,
    ev.zoneCode, ev.emptyNet>>

\* the stored details of the row carry both coordinates
CarriesBothCoordinates(ev) ==
  /\ Get(LoadDetails(ev.details_json), "xCoord") # Null
  /\ Get(LoadDetails(ev.details_json), "yCoord") # Null

\* C31: for every Event row that ingestion stored from details carrying both
\* coordinates, the shot columns the backfill derives from the stored
\* details_json equal the stored shot columns.
C31_BackfillAgreesWithIngestion ==
  \A k \in DOMAIN db.Event :
    CarriesBothCoordinates(db.Event[k]) =>
      ShotColumns(BackfillRow(db.Event[k])) = ShotColumns(db.Event[k])

====
